---- MODULE Spec2Model ----
(***************************************************************************)
(* A model of the EncryptionService of nestjs-encryption                   *)
(* (src/src/lib/encryption.service.ts): construction with key validation,  *)
(* encrypt, decrypt with its chain of decode/validate steps, generateKey.  *)
(*                                                                         *)
(* Strings are sequences of UTF-16 code units (numbers), buffers are       *)
(* sequences of bytes (0..255).  Base64, UTF-8 and JSON are computed as    *)
(* Node computes them.  The block cipher and HMAC-SHA256 are library       *)
(* primitives; they are modelled by small keyed functions that keep the    *)
(* structure the service depends on (see CipherUpdateFinal, HmacSha256).   *)
(***************************************************************************)
EXTENDS Integers, Sequences, FiniteSets, TLC

SeqMap(Op(_), s) == [i \in 1..Len(s) |-> Op(s[i])] \o <<>>

(***************************************************************************)
(* Base64, as Buffer.toString("base64") and Buffer.from(s, "base64").      *)
(***************************************************************************)
\* The character of a 6-bit value in the standard alphabet.
B64Char(v) ==
    IF v < 26 THEN 65 + v
    ELSE IF v < 52 THEN 97 + (v - 26)
    ELSE IF v < 62 THEN 48 + (v - 52)
    ELSE IF v = 62 THEN 43
    ELSE 47

\* The 6-bit value of a character, 64 for a character the decoder skips.
\* The decoder accepts the URL-safe characters "-" and "_" as 62 and 63.
Unbase64(c) ==
    IF c >= 65 /\ c <= 90 THEN c - 65
    ELSE IF c >= 97 /\ c <= 122 THEN c - 97 + 26
    ELSE IF c >= 48 /\ c <= 57 THEN c - 48 + 52
    ELSE IF c = 43 \/ c = 45 THEN 62
    ELSE IF c = 47 \/ c = 95 THEN 63
    ELSE 64

PadChar == 61

\* Buffer.toString("base64"): 3 bytes to 4 characters, "=" padding.
ToBase64(buf) ==
    LET n == Len(buf)
        At(i) == IF i <= n THEN buf[i] ELSE 0
        CharAt(j) ==
            LET g == (j - 1) \div 4
                k == (j - 1) % 4
                b0 == At(3 * g + 1)
                b1 == At(3 * g + 2)
                b2 == At(3 * g + 3)
            IN  IF k = 0 THEN B64Char(b0 \div 4)
                ELSE IF k = 1 THEN B64Char((b0 % 4) * 16 + b1 \div 16)
                ELSE IF k = 2
                     THEN IF 3 * g + 2 > n THEN PadChar
                          ELSE B64Char((b1 % 16) * 4 + b2 \div 64)
                ELSE IF 3 * g + 3 > n THEN PadChar
                     ELSE B64Char(b2 % 64)
    IN  [j \in 1..(4 * ((n + 2) \div 3)) |-> CharAt(j)] \o <<>>

\* The least element of a non-empty set of numbers.
Min(S) == CHOOSE i \in S : \A j \in S : i <= j

\* The position of the first "=" of s, Len(s) + 1 when there is none.
FirstPad(s) ==
    LET pads == {i \in 1..Len(s) : s[i] = PadChar}
    IN  IF pads = {} THEN Len(s) + 1 ELSE Min(pads)

\* Buffer.from(s, "base64"): characters outside the alphabet are skipped,
\* decoding stops at the first "=", a trailing group of 2 or 3 characters
\* gives 1 or 2 bytes, a trailing single character gives none.
FromBase64(s) ==
    LET upto == FirstPad(s) - 1
        sext == SelectSeq(SeqMap(Unbase64, SubSeq(s, 1, upto)), LAMBDA v : v < 64)
        m == Len(sext)
        r == m % 4
        n == 3 * (m \div 4) + (IF r = 2 THEN 1 ELSE IF r = 3 THEN 2 ELSE 0)
        ByteAt(i) ==
            LET g == (i - 1) \div 3
                k == (i - 1) % 3
                s0 == sext[4 * g + 1]
                s1 == sext[4 * g + 2]
            IN  IF k = 0 THEN (s0 * 4 + s1 \div 16) % 256
                ELSE IF k = 1 THEN ((s1 % 16) * 16 + sext[4 * g + 3] \div 4) % 256
                ELSE ((sext[4 * g + 3] % 4) * 64 + sext[4 * g + 4]) % 256
    IN  [i \in 1..n |-> ByteAt(i)] \o <<>>

(***************************************************************************)
(* UTF-8, as Buffer.from(string) / cipher.update(string) encode and        *)
(* Buffer.toString() decodes.  Both recurse once per non-ASCII character.  *)
(***************************************************************************)
IsHighSurrogate(u) == u >= 55296 /\ u <= 56319
IsLowSurrogate(u) == u >= 56320 /\ u <= 57343
ReplacementChar == 65533

\* The bytes of the character that starts at s[i], and the code units it takes.
\* A surrogate without its partner is written as U+FFFD.
Utf8EncodeAt(s, i) ==
    LET u == s[i]
    IN  IF u < 128 THEN [bytes |-> <<u>>, used |-> 1]
        ELSE IF u < 2048
        THEN [bytes |-> <<192 + u \div 64, 128 + (u % 64)>>, used |-> 1]
        ELSE IF IsHighSurrogate(u) /\ i < Len(s) /\ IsLowSurrogate(s[i + 1])
        THEN LET cp == 65536 + (u - 55296) * 1024 + (s[i + 1] - 56320)
             IN  [bytes |-> <<240 + cp \div 262144, 128 + ((cp \div 4096) % 64),
                              128 + ((cp \div 64) % 64), 128 + (cp % 64)>>,
                  used |-> 2]
        ELSE LET v == IF IsHighSurrogate(u) \/ IsLowSurrogate(u)
                      THEN ReplacementChar ELSE u
             IN  [bytes |-> <<224 + v \div 4096, 128 + ((v \div 64) % 64), 128 + (v % 64)>>,
                  used |-> 1]

RECURSIVE Utf8Encode(_)
Utf8Encode(s) ==
    LET wide == {i \in 1..Len(s) : s[i] >= 128}
    IN  IF wide = {} THEN s
        ELSE LET i == Min(wide)
                 e == Utf8EncodeAt(s, i)
             IN  SubSeq(s, 1, i - 1) \o e.bytes
                     \o Utf8Encode(SubSeq(s, i + e.used, Len(s)))

IsCont(b, i, lo, hi) == i <= Len(b) /\ b[i] >= lo /\ b[i] <= hi

\* The code units of the sequence that starts at b[i], and the bytes it takes.
\* An ill-formed sequence gives one U+FFFD for its longest well-formed prefix.
Utf8DecodeAt(b, i) ==
    LET b0 == b[i]
        bad(n) == [units |-> <<ReplacementChar>>, used |-> n]
    IN  IF b0 < 128 THEN [units |-> <<b0>>, used |-> 1]
        ELSE IF b0 >= 194 /\ b0 <= 223
        THEN IF IsCont(b, i + 1, 128, 191)
             THEN [units |-> <<(b0 - 192) * 64 + (b[i + 1] - 128)>>, used |-> 2]
             ELSE bad(1)
        ELSE IF b0 >= 224 /\ b0 <= 239
        THEN LET lo == IF b0 = 224 THEN 160 ELSE 128
                 hi == IF b0 = 237 THEN 159 ELSE 191
             IN  IF ~IsCont(b, i + 1, lo, hi) THEN bad(1)
                 ELSE IF ~IsCont(b, i + 2, 128, 191) THEN bad(2)
                 ELSE [units |-> <<(b0 - 224) * 4096 + (b[i + 1] - 128) * 64
                                     + (b[i + 2] - 128)>>,
                       used |-> 3]
        ELSE IF b0 >= 240 /\ b0 <= 244
        THEN LET lo == IF b0 = 240 THEN 144 ELSE 128
                 hi == IF b0 = 244 THEN 143 ELSE 191
             IN  IF ~IsCont(b, i + 1, lo, hi) THEN bad(1)
                 ELSE IF ~IsCont(b, i + 2, 128, 191) THEN bad(2)
                 ELSE IF ~IsCont(b, i + 3, 128, 191) THEN bad(3)
                 ELSE LET cp == (b0 - 240) * 262144 + (b[i + 1] - 128) * 4096
                                    + (b[i + 2] - 128) * 64 + (b[i + 3] - 128)
                      IN  [units |-> <<55296 + (cp - 65536) \div 1024,
                                       56320 + ((cp - 65536) % 1024)>>,
                           used |-> 4]
        ELSE bad(1)

RECURSIVE Utf8Decode(_)
Utf8Decode(b) ==
    LET wide == {i \in 1..Len(b) : b[i] >= 128}
    IN  IF wide = {} THEN b
        ELSE LET i == Min(wide)
                 d == Utf8DecodeAt(b, i)
             IN  SubSeq(b, 1, i - 1) \o d.units
                     \o Utf8Decode(SubSeq(b, i + d.used, Len(b)))

(***************************************************************************)
(* JSON values.  Every value is a record of one shape: t is the type, s    *)
(* the text of a string or the lexeme of a number, a the elements of an    *)
(* array or the member values of an object, k the member names of an       *)
(* object (in the order written, a repeated name kept at each place).      *)
(***************************************************************************)
JNull == [t |-> "null", s |-> <<>>, a |-> <<>>, k |-> <<>>]
JBool(b) == [t |-> IF b THEN "true" ELSE "false", s |-> <<>>, a |-> <<>>, k |-> <<>>]
JNumber(lexeme) == [t |-> "number", s |-> lexeme, a |-> <<>>, k |-> <<>>]
JString(str) == [t |-> "string", s |-> str, a |-> <<>>, k |-> <<>>]
JArray(elems) == [t |-> "array", s |-> <<>>, a |-> elems, k |-> <<>>]
JObject(names, vals) == [t |-> "object", s |-> <<>>, a |-> vals, k |-> names]

\* Object.hasOwn(obj, name) for a parsed object.
HasMember(obj, name) == \E i \in 1..Len(obj.k) : obj.k[i] = name

\* obj[name]: JSON.parse keeps the last of the members of one name.
Member(obj, name) ==
    LET at == {i \in 1..Len(obj.k) : obj.k[i] = name}
    IN  obj.a[CHOOSE i \in at : \A j \in at : j <= i]

HexDigit(v) == IF v < 10 THEN 48 + v ELSE 97 + (v - 10)

\* The value of a hexadecimal digit, 16 for any other character.
HexValue(c) ==
    IF c >= 48 /\ c <= 57 THEN c - 48
    ELSE IF c >= 97 /\ c <= 102 THEN c - 97 + 10
    ELSE IF c >= 65 /\ c <= 70 THEN c - 65 + 10
    ELSE 16

\* Whether JSON.stringify writes the code unit at str[i] as an escape.
NeedsEscape(str, i) ==
    LET u == str[i]
    IN  \/ u < 32
        \/ u = 34
        \/ u = 92
        \/ IsHighSurrogate(u) /\ ~(i < Len(str) /\ IsLowSurrogate(str[i + 1]))
        \/ IsLowSurrogate(u) /\ ~(i > 1 /\ IsHighSurrogate(str[i - 1]))

JSONEscape(u) ==
    IF u = 34 THEN <<92, 34>>
    ELSE IF u = 92 THEN <<92, 92>>
    ELSE IF u = 8 THEN <<92, 98>>
    ELSE IF u = 9 THEN <<92, 116>>
    ELSE IF u = 10 THEN <<92, 110>>
    ELSE IF u = 12 THEN <<92, 102>>
    ELSE IF u = 13 THEN <<92, 114>>
    ELSE <<92, 117, HexDigit(u \div 4096), HexDigit((u \div 256) % 16),
           HexDigit((u \div 16) % 16), HexDigit(u % 16)>>

\* The characters of a string between its quotes, as JSON.stringify writes them.
RECURSIVE JSONQuoteBody(_)
JSONQuoteBody(str) ==
    LET esc == {i \in 1..Len(str) : NeedsEscape(str, i)}
    IN  IF esc = {} THEN str
        ELSE LET i == Min(esc)
             IN  SubSeq(str, 1, i - 1) \o JSONEscape(str[i])
                     \o JSONQuoteBody(SubSeq(str, i + 1, Len(str)))

JSONQuote(str) == <<34>> \o JSONQuoteBody(str) \o <<34>>

\* JSON.stringify(value): no white space, members in the order they were set.
RECURSIVE JSONStringify(_)
RECURSIVE StringifyItems(_, _, _)
StringifyItems(names, vals, i) ==
    IF i > Len(vals) THEN <<>>
    ELSE (IF i > 1 THEN <<44>> ELSE <<>>)
             \o (IF names = <<>> THEN <<>> ELSE JSONQuote(names[i]) \o <<58>>)
             \o JSONStringify(vals[i])
             \o StringifyItems(names, vals, i + 1)

JSONStringify(v) ==
    IF v.t = "null" THEN <<110, 117, 108, 108>>
    ELSE IF v.t = "true" THEN <<116, 114, 117, 101>>
    ELSE IF v.t = "false" THEN <<102, 97, 108, 115, 101>>
    ELSE IF v.t = "number" THEN v.s
    ELSE IF v.t = "string" THEN JSONQuote(v.s)
    ELSE IF v.t = "array" THEN <<91>> \o StringifyItems(<<>>, v.a, 1) \o <<93>>
    ELSE <<123>> \o StringifyItems(v.k, v.a, 1) \o <<125>>

(***************************************************************************)
(* JSON.parse(text), a recursive-descent parser over the code units.  A    *)
(* parse gives [ok, v, next]: next is the position after the value.        *)
(***************************************************************************)
ParseFail == [ok |-> FALSE, v |-> JNull, next |-> 0]
Parsed(val, nxt) == [ok |-> TRUE, v |-> val, next |-> nxt]

IsWhite(c) == c = 32 \/ c = 9 \/ c = 10 \/ c = 13
IsDigit(c) == c >= 48 /\ c <= 57

\* The first position from i on that holds no white space (Len + 1 at the end).
SkipWhite(text, i) ==
    Min({j \in i..(Len(text) + 1) : j = Len(text) + 1 \/ ~IsWhite(text[j])})

\* The first position from i on that holds no digit.
SkipDigits(text, i) ==
    Min({j \in i..(Len(text) + 1) : j = Len(text) + 1 \/ ~IsDigit(text[j])})

\* Whether the quote at text[j] follows an odd number of backslashes.
IsEscapedQuote(text, i, j) ==
    /\ j - 1 > i
    /\ text[j - 1] = 92
    /\ Cardinality({k \in (i + 1)..(j - 1) : \A m \in k..(j - 1) : text[m] = 92}) % 2 = 1

\* The text of a string body with its escapes resolved.
RECURSIVE Unescape(_)
Unescape(body) ==
    LET bs == {i \in 1..Len(body) : body[i] = 92}
    IN  IF bs = {} THEN [ok |-> TRUE, s |-> body]
        ELSE LET i == Min(bs)
                 c == IF i < Len(body) THEN body[i + 1] ELSE 0
                 one == IF c = 34 \/ c = 92 \/ c = 47 THEN c
                        ELSE IF c = 98 THEN 8
                        ELSE IF c = 102 THEN 12
                        ELSE IF c = 110 THEN 10
                        ELSE IF c = 114 THEN 13
                        ELSE IF c = 116 THEN 9
                        ELSE 0
                 hex == IF c = 117 /\ i + 5 <= Len(body)
                        THEN SeqMap(HexValue, SubSeq(body, i + 2, i + 5))
                        ELSE <<16>>
                 used == IF c = 117 THEN 6 ELSE 2
                 unit == IF c = 117
                         THEN hex[1] * 4096 + hex[2] * 256 + hex[3] * 16 + hex[4]
                         ELSE one
                 good == IF c = 117 THEN \A n \in 1..Len(hex) : hex[n] < 16
                         ELSE one # 0
                 rest == Unescape(SubSeq(body, i + used, Len(body)))
             IN  IF good /\ rest.ok
                 THEN [ok |-> TRUE, s |-> SubSeq(body, 1, i - 1) \o <<unit>> \o rest.s]
                 ELSE [ok |-> FALSE, s |-> <<>>]

\* A string: text[i] is its opening quote.
ParseString(text, i) ==
    LET ends == {j \in (i + 1)..Len(text) : text[j] = 34 /\ ~IsEscapedQuote(text, i, j)}
    IN  IF ends = {} THEN ParseFail
        ELSE LET e == Min(ends)
                 body == SubSeq(text, i + 1, e - 1)
                 u == Unescape(body)
             IN  IF (\E n \in 1..Len(body) : body[n] < 32) \/ ~u.ok THEN ParseFail
                 ELSE Parsed(JString(u.s), e + 1)

\* A number: -? (0 | [1-9][0-9]*) (. [0-9]+)? ([eE] [+-]? [0-9]+)?
ParseNumber(text, i) ==
    LET n == Len(text)
        At(j) == IF j <= n THEN text[j] ELSE 0
        p0 == IF At(i) = 45 THEN i + 1 ELSE i
        p1 == SkipDigits(text, p0)
        intOk == p1 > p0 /\ (At(p0) = 48 => p1 = p0 + 1)
        hasFrac == At(p1) = 46
        p2 == IF hasFrac THEN SkipDigits(text, p1 + 1) ELSE p1
        fracOk == hasFrac => p2 > p1 + 1
        hasExp == At(p2) = 101 \/ At(p2) = 69
        p3 == IF hasExp
              THEN IF At(p2 + 1) = 43 \/ At(p2 + 1) = 45 THEN p2 + 2 ELSE p2 + 1
              ELSE p2
        p4 == IF hasExp THEN SkipDigits(text, p3) ELSE p2
        expOk == hasExp => p4 > p3
    IN  IF intOk /\ fracOk /\ expOk
        THEN Parsed(JNumber(SubSeq(text, i, p4 - 1)), p4)
        ELSE ParseFail

\* Whether text holds the characters of word from position i on.
HasWord(text, i, word) ==
    /\ i + Len(word) - 1 <= Len(text)
    /\ SubSeq(text, i, i + Len(word) - 1) = word

\* A parse followed by what is done with its value and the position after it.
ParseThen(r, Rest(_, _)) == IF r.ok THEN Rest(r.v, r.next) ELSE ParseFail

RECURSIVE ParseValue(_, _)
RECURSIVE ParseElements(_, _, _)
RECURSIVE ElementsNext(_, _, _)
RECURSIVE ParseMembers(_, _, _, _)
RECURSIVE MembersNext(_, _, _, _)

\* After an element of an array: "]" ends it, "," brings another element.
ElementsNext(text, j, elems) ==
    IF j > Len(text) THEN ParseFail
    ELSE IF text[j] = 93 THEN Parsed(JArray(elems), j + 1)
    ELSE IF text[j] = 44 THEN ParseElements(text, SkipWhite(text, j + 1), elems)
    ELSE ParseFail

\* The elements of an array after "[" or ",": i is the start of an element.
ParseElements(text, i, elems) ==
    ParseThen(ParseValue(text, i),
              LAMBDA v, p : ElementsNext(text, SkipWhite(text, p), Append(elems, v)))

\* After a member of an object: "}" ends it, "," brings another member.
MembersNext(text, j, names, vals) ==
    IF j > Len(text) THEN ParseFail
    ELSE IF text[j] = 125 THEN Parsed(JObject(names, vals), j + 1)
    ELSE IF text[j] = 44 THEN ParseMembers(text, SkipWhite(text, j + 1), names, vals)
    ELSE ParseFail

\* The members of an object after "{" or ",": i is the start of a name.
ParseMembers(text, i, names, vals) ==
    IF i > Len(text) \/ text[i] # 34 THEN ParseFail
    ELSE ParseThen(ParseString(text, i),
                   LAMBDA nm, p :
                       IF SkipWhite(text, p) > Len(text) \/ text[SkipWhite(text, p)] # 58
                       THEN ParseFail
                       ELSE ParseThen(ParseValue(text, SkipWhite(text, SkipWhite(text, p) + 1)),
                                      LAMBDA v, q :
                                          MembersNext(text, SkipWhite(text, q),
                                                      Append(names, nm.s), Append(vals, v))))

\* The value that starts at text[i].
ParseValue(text, i) ==
    IF i > Len(text) THEN ParseFail
    ELSE LET c == text[i]
         IN  IF c = 34 THEN ParseString(text, i)
             ELSE IF c = 45 \/ IsDigit(c) THEN ParseNumber(text, i)
             ELSE IF c = 110
             THEN IF HasWord(text, i, <<110, 117, 108, 108>>)
                  THEN Parsed(JNull, i + 4) ELSE ParseFail
             ELSE IF c = 116
             THEN IF HasWord(text, i, <<116, 114, 117, 101>>)
                  THEN Parsed(JBool(TRUE), i + 4) ELSE ParseFail
             ELSE IF c = 102
             THEN IF HasWord(text, i, <<102, 97, 108, 115, 101>>)
                  THEN Parsed(JBool(FALSE), i + 5) ELSE ParseFail
             ELSE IF c = 91
             THEN LET j == SkipWhite(text, i + 1)
                  IN  IF j <= Len(text) /\ text[j] = 93
                      THEN Parsed(JArray(<<>>), j + 1)
                      ELSE ParseElements(text, j, <<>>)
             ELSE IF c = 123
             THEN LET j == SkipWhite(text, i + 1)
                  IN  IF j <= Len(text) /\ text[j] = 125
                      THEN Parsed(JObject(<<>>, <<>>), j + 1)
                      ELSE ParseMembers(text, j, <<>>, <<>>)
             ELSE ParseFail

\* JSON.parse(text): one value with white space around it; ok is FALSE where
\* JSON.parse throws a SyntaxError.
JSONParse(text) ==
    ParseThen(ParseValue(text, SkipWhite(text, 1)),
              LAMBDA v, p : IF SkipWhite(text, p) = Len(text) + 1 THEN Parsed(v, p)
                            ELSE ParseFail)

(***************************************************************************)
(* The registry of supported ciphers.                                      *)
(***************************************************************************)
Cipher == {"aes-128-cbc", "aes-256-cbc", "aes-128-gcm", "aes-256-gcm"}

ciphers ==
    [c \in Cipher |->
        IF c = "aes-128-cbc" THEN [keyLength |-> 16, ivLength |-> 16, blockLength |-> 16]
        ELSE IF c = "aes-256-cbc" THEN [keyLength |-> 32, ivLength |-> 16, blockLength |-> 16]
        ELSE IF c = "aes-128-gcm" THEN [keyLength |-> 16, ivLength |-> 12, blockLength |-> 16]
        ELSE [keyLength |-> 32, ivLength |-> 12, blockLength |-> 16]]

\* The options of a construction that leave the cipher out.
Undefined == "undefined"

(***************************************************************************)
(* What a call gives: a value, or an error thrown with a message.          *)
(***************************************************************************)
\* ran lists the checks of decrypt the call went through, in order.
Returns(v) == [ok |-> TRUE, msg |-> "", val |-> v, ran |-> <<>>]
Throws(m) == [ok |-> FALSE, msg |-> m, val |-> <<>>, ran |-> <<>>]
After(checks, r) == [r EXCEPT !.ran = checks \o @]

(***************************************************************************)
(* node:crypto.  randomBytes draws from the random source: the model's     *)
(* source has RandomValues values of each length, told apart by r.         *)
(***************************************************************************)
RandomValues == 2

randomBytes(n, r) == [i \in 1..n |-> (97 * r + 7 * i) % 256] \o <<>>

\* The cipher modes of the registry, as OpenSSL runs them.
IsGCM(c) == c \in {"aes-128-gcm", "aes-256-gcm"}
AesBlock == 16

KeyByte(key, i) == key[((i - 1) % Len(key)) + 1]

\* PKCS#7: 1 to 16 bytes are added, each holding their count.
Pkcs7Pad(data) ==
    LET n == AesBlock - (Len(data) % AesBlock)
    IN  data \o [i \in 1..n |-> n]

\* The chained blocks of a CBC encryption of padded data: each byte of a
\* block is mixed with the key and with the block before it (the IV first).
RECURSIVE CbcChain(_, _, _, _)
CbcChain(key, prev, data, at) ==
    IF at > Len(data) THEN <<>>
    ELSE LET blk == [i \in 1..AesBlock |->
                        (data[at + i - 1] + prev[i] + KeyByte(key, at + i - 1)) % 256]
         IN  blk \o CbcChain(key, blk, data, at + AesBlock)

\* createCipheriv(c, key, iv), then update(data) and final().  CBC pads and
\* chains whole blocks; GCM is a stream cipher and keeps the length of data
\* (its authentication tag is left in the cipher object: the service never
\* calls getAuthTag).
CipherUpdateFinal(c, key, iv, data) ==
    IF IsGCM(c)
    THEN [i \in 1..Len(data) |->
             (data[i] + KeyByte(key, i) + iv[((i - 1) % Len(iv)) + 1] + i) % 256] \o <<>>
    ELSE CbcChain(key, iv, Pkcs7Pad(data), 1)

BadDecrypt == "error:1C800064:Provider routines::bad decrypt"
WrongFinalBlockLength == "error:1C80006B:Provider routines::wrong final block length"
UnableToAuthenticate == "Unsupported state or unable to authenticate data"

\* createDecipheriv(c, key, iv), then update(data) and final().  final()
\* of a GCM decipher throws when no tag was given with setAuthTag, and the
\* service gives none.  final() of a CBC decipher throws unless the last
\* block ends in a PKCS#7 padding.
DecipherUpdateFinal(c, key, iv, data) ==
    IF IsGCM(c) THEN Throws(UnableToAuthenticate)
    ELSE IF Len(data) = 0 \/ Len(data) % AesBlock # 0 THEN Throws(WrongFinalBlockLength)
    ELSE LET plain == [i \in 1..Len(data) |->
                          (data[i] + 512
                             - (IF i <= AesBlock THEN iv[i] ELSE data[i - AesBlock])
                             - KeyByte(key, i)) % 256] \o <<>>
             n == plain[Len(data)]
         IN  IF n >= 1 /\ n <= AesBlock
                /\ \A i \in (Len(data) - n + 1)..Len(data) : plain[i] = n
             THEN Returns(SubSeq(plain, 1, Len(data) - n))
             ELSE Throws(BadDecrypt)

Sha256Length == 32

\* The sum of data[i] * weight over the positions i = j, j + 32, j + 64, ...
RECURSIVE DigestSum(_, _, _)
DigestSum(data, i, weight) ==
    IF i > Len(data) THEN 0
    ELSE (data[i] * weight + DigestSum(data, i + Sha256Length, weight + 2)) % 256

\* createHmac("sha256", key).update(...).digest(): a keyed digest of 32
\* bytes over all the bytes fed to it.  SHA-256 itself is not computed: the
\* digest here changes with every byte of the key, every byte of the data
\* and the length of the data, as a MAC without collisions does.
HmacSha256(key, data) ==
    [j \in 1..Sha256Length |->
        (3 * KeyByte(key, j) + DigestSum(data, j, 1) + 5 * Len(data) + j) % 256] \o <<>>

TimingSafeEqualLength == "Input buffers must have the same byte length"

\* timingSafeEqual(a, b): throws a RangeError for buffers of different length.
timingSafeEqual(a, b) ==
    IF Len(a) # Len(b) THEN Throws(TimingSafeEqualLength)
    ELSE Returns(a = b)

(***************************************************************************)
(* The EncryptionService.  An instance is [cipher, key]: cipher a name of  *)
(* the registry, key the decoded bytes.                                    *)
(***************************************************************************)
InvalidArgType ==
    "The first argument must be of type string or an instance of Buffer, ArrayBuffer, or Array or an Array-like Object."
NullToObject == "Cannot convert undefined or null to object"

\* The text of a number written with digits only, as the numbers of the model are.
RECURSIVE DigitsText(_)
DigitsText(lexeme) ==
    IF lexeme = <<>> THEN ""
    ELSE ToString(Head(lexeme) - 48) \o DigitsText(Tail(lexeme))

\* How the TypeError of Buffer.from names the value it was given.
Received(value) ==
    IF value.t = "null" THEN " Received null"
    ELSE IF value.t = "number" THEN " Received type number (" \o DigitsText(value.s) \o ")"
    ELSE IF value.t \in {"true", "false"} THEN " Received type boolean (" \o value.t \o ")"
    ELSE " Received an instance of Object"

\* Buffer.from(value, "base64") for a parsed JSON value.  A string is
\* decoded.  An array, an object with a length member and the JSON form of
\* a Buffer give a buffer built from their elements; the service only
\* compares its base64 text with the value, which is no string, so the
\* bytes are left out here.  Every other value throws a TypeError.
BufferFrom(value) ==
    IF value.t = "string" THEN Returns(FromBase64(value.s))
    ELSE IF value.t = "array" THEN Returns(<<>>)
    ELSE IF value.t = "object"
            /\ \/ HasMember(value, <<108, 101, 110, 103, 116, 104>>)
               \/ /\ HasMember(value, <<116, 121, 112, 101>>)
                  /\ Member(value, <<116, 121, 112, 101>>) = JString(<<66, 117, 102, 102, 101, 114>>)
                  /\ HasMember(value, <<100, 97, 116, 97>>)
                  /\ Member(value, <<100, 97, 116, 97>>).t = "array"
    THEN Returns(<<>>)
    ELSE Throws(InvalidArgType \o Received(value))

\* buf.toString("base64") !== encoded, for a parsed JSON value encoded.
NotCanonical(buf, encoded) == encoded.t # "string" \/ ToBase64(buf) # encoded.s

\* decodeKey with its two checks in the other order: what the property of
\* construction (base64 before length) must tell from decodeKey.
decodeKeyLengthFirst(cipher, key) ==
    LET decodedKey == FromBase64(key)
    IN  IF Len(decodedKey) # ciphers[cipher].keyLength
        THEN Throws("The decoded key must be " \o ToString(ciphers[cipher].keyLength)
                       \o " bytes long.")
        ELSE IF ToBase64(decodedKey) # key
        THEN Throws("The key must be a valid base64-encoded string.")
        ELSE Returns(decodedKey)

decodeKey(cipher, key) ==
    LET decodedKey == FromBase64(key)
    IN  IF ToBase64(decodedKey) # key
        THEN Throws("The key must be a valid base64-encoded string.")
        ELSE IF Len(decodedKey) # ciphers[cipher].keyLength
        THEN Throws("The decoded key must be " \o ToString(ciphers[cipher].keyLength)
                       \o " bytes long.")
        ELSE Returns(decodedKey)

\* The constructor with aes-128-cbc for the cipher left out: what the
\* property of the default cipher must tell from the constructor.
constructorDefault128(options) ==
    LET cipher == IF options.cipher = Undefined THEN "aes-128-cbc" ELSE options.cipher
        key == decodeKey(cipher, options.key)
    IN  IF key.ok
        THEN [ok |-> TRUE, kind |-> "instance", message |-> "",
              self |-> [cipher |-> cipher, key |-> key.val]]
        ELSE [ok |-> FALSE, kind |-> "UnableToInitialize",
              message |-> "Unable to initialize the encryption service: " \o key.msg,
              self |-> [cipher |-> cipher, key |-> <<>>]]

\* The constructor keeping the decoded key without validating it: what the
\* instance invariant must tell from the constructor.
constructorUnchecked(options) ==
    [ok |-> TRUE, kind |-> "instance", message |-> "",
     self |-> [cipher |-> IF options.cipher = Undefined THEN "aes-256-cbc"
                          ELSE options.cipher,
               key |-> FromBase64(options.key)]]

\* new EncryptionService(options): the instance, or UnableToInitialize.
constructor(options) ==
    LET cipher == IF options.cipher = Undefined THEN "aes-256-cbc" ELSE options.cipher
        key == decodeKey(cipher, options.key)
    IN  IF key.ok
        THEN [ok |-> TRUE, kind |-> "instance", message |-> "",
              self |-> [cipher |-> cipher, key |-> key.val]]
        ELSE [ok |-> FALSE, kind |-> "UnableToInitialize",
              message |-> "Unable to initialize the encryption service: " \o key.msg,
              self |-> [cipher |-> cipher, key |-> <<>>]]

\* generateKey reading the ivLength of the cipher for the keyLength: what
\* the property of key generation must tell from generateKey.
generateKeyOfIvLength(cipher, r) == ToBase64(randomBytes(ciphers[cipher].ivLength, r))

\* EncryptionService.generateKey(cipher), r the draw of the random source.
generateKey(cipher, r) == ToBase64(randomBytes(ciphers[cipher].keyLength, r))

\* generateIV giving every call the value of one draw, an IV kept: what the
\* property of IV freshness must tell from generateIV.
generateIVKept(self, r) == randomBytes(ciphers[self.cipher].ivLength, 1)

generateIV(self, r) == randomBytes(ciphers[self.cipher].ivLength, r)

\* computeHmac signing the ciphertext without the IV: what the property of
\* tamper detection must tell from computeHmac.
computeHmacOfCipherText(self, cipherText, iv) == HmacSha256(self.key, cipherText)

computeHmac(self, cipherText, iv) == HmacSha256(self.key, cipherText \o iv)

\* verifyHmac that compares and throws nothing for a difference: what the
\* property of authentication before the cipher must tell from verifyHmac.
verifyHmacUnchecked(self, cipherText, iv, hmac) ==
    LET eq == timingSafeEqual(computeHmac(self, cipherText, iv), hmac)
    IN  IF ~eq.ok THEN eq ELSE Returns(<<>>)

verifyHmac(self, cipherText, iv, hmac) ==
    LET eq == timingSafeEqual(computeHmac(self, cipherText, iv), hmac)
    IN  IF ~eq.ok THEN eq
        ELSE IF ~eq.val THEN Throws("The signature does not match the encrypted payload.")
        ELSE Returns(<<>>)

\* The three fields of the payload encrypt builds, in the order it sets them.
AEADPayload(iv, hmac, cipherText) ==
    JObject(<< <<105, 118>>, <<104, 109, 97, 99>>,
               <<99, 105, 112, 104, 101, 114, 84, 101, 120, 116>> >>,
            <<JString(iv), JString(hmac), JString(cipherText)>>)

\* encrypt(plaintext), r the draw of the random source.
encrypt(self, plaintext, r) ==
    LET iv == generateIV(self, r)
        cipherText == CipherUpdateFinal(self.cipher, self.key, iv, Utf8Encode(plaintext))
        hmac == computeHmac(self, cipherText, iv)
        aead == AEADPayload(ToBase64(iv), ToBase64(hmac), ToBase64(cipherText))
    IN  ToBase64(Utf8Encode(JSONStringify(aead)))

decodeIV(self, encodedIV) ==
    LET iv == BufferFrom(encodedIV)
    IN  IF ~iv.ok THEN After(<<"iv base64">>, iv)
        ELSE IF NotCanonical(iv.val, encodedIV)
        THEN After(<<"iv base64">>, Throws("The IV is not a valid base64-encoded string."))
        ELSE IF Len(iv.val) # ciphers[self.cipher].ivLength
        THEN After(<<"iv base64", "iv length">>,
                   Throws("The decoded IV is not the correct length. Expected "
                             \o ToString(ciphers[self.cipher].ivLength) \o " bytes, got "
                             \o ToString(Len(iv.val)) \o " bytes."))
        ELSE After(<<"iv base64", "iv length">>, iv)

decodeHmac(self, encodedHmac) ==
    LET hmac == BufferFrom(encodedHmac)
    IN  IF ~hmac.ok THEN After(<<"hmac base64">>, hmac)
        ELSE IF NotCanonical(hmac.val, encodedHmac)
        THEN After(<<"hmac base64">>, Throws("The HMAC is not a valid base64-encoded string."))
        ELSE After(<<"hmac base64">>, hmac)

decodeCipherText(self, encodedCipherText) ==
    LET cipherText == BufferFrom(encodedCipherText)
    IN  IF ~cipherText.ok THEN After(<<"cipherText base64">>, cipherText)
        ELSE IF NotCanonical(cipherText.val, encodedCipherText)
        THEN After(<<"cipherText base64">>,
                   Throws("The encoded ciphertext is not a valid base64-encoded string."))
        ELSE IF Len(cipherText.val) % ciphers[self.cipher].blockLength # 0
        THEN After(<<"cipherText base64", "cipherText length">>,
                   Throws("The length of the decoded ciphertext is not a multiple of the cipher's block length."))
        ELSE After(<<"cipherText base64", "cipherText length">>, cipherText)

\* The names decodeAEADPayload looks for, in the order of its loop.
FieldNames ==
    << <<105, 118>>,
       <<99, 105, 112, 104, 101, 114, 84, 101, 120, 116>>,
       <<104, 109, 97, 99>> >>

FieldText(name) ==
    IF name = <<105, 118>> THEN "iv"
    ELSE IF name = <<104, 109, 97, 99>> THEN "hmac"
    ELSE "cipherText"

\* Buffer.from(encodedPayload, "base64"), and its comparison with the text.
PayloadBytes(encodedPayload) ==
    LET payload == FromBase64(encodedPayload)
    IN  After(<<"payload base64">>,
              IF ToBase64(payload) # encodedPayload
              THEN Throws("The encoded AEAD payload is not a valid base64-encoded string.")
              ELSE Returns(payload))

\* JSON.parse(payload.toString("utf-8")), a SyntaxError caught and rethrown.
Deserialized(parsed) ==
    IF parsed.ok THEN Returns(parsed.v)
    ELSE Throws("The decoded AEAD payload is not a valid JSON string.")

PayloadJson(payload) == After(<<"JSON">>, Deserialized(JSONParse(Utf8Decode(payload))))

\* The loop over the required fields: Object.hasOwn throws for null, and
\* finds no member in any other value that is no object.
CheckFields(pkg) ==
    LET missing == {i \in 1..Len(FieldNames) :
                       pkg.t # "object" \/ ~HasMember(pkg, FieldNames[i])}
    IN  After(<<"fields">>,
              IF pkg.t = "null" THEN Throws(NullToObject)
              ELSE IF missing = {} THEN Returns(<<>>)
              ELSE Throws("The AEAD payload is missing the "
                             \o FieldText(FieldNames[Min(missing)]) \o " field."))

\* The calls of a sequence: b was made after a returned.
Next2(a, b) == After(a.ran, b)

\* decodeAEADPayload, statement by statement: each operator is given the
\* outcome of the statement before it, returns that outcome where it is an
\* error thrown, and goes on with the next statement where it is not.
PayloadFromCipherText(iv, hmac, cipherText) ==
    IF ~cipherText.ok THEN cipherText
    ELSE Next2(cipherText,
               Returns([iv |-> iv, hmac |-> hmac, cipherText |-> cipherText.val]))

PayloadFromHmac(self, pkg, iv, hmac) ==
    IF ~hmac.ok THEN hmac
    ELSE Next2(hmac,
               PayloadFromCipherText(iv, hmac.val,
                                     decodeCipherText(self, Member(pkg, FieldNames[2]))))

PayloadFromIV(self, pkg, iv) ==
    IF ~iv.ok THEN iv
    ELSE Next2(iv, PayloadFromHmac(self, pkg, iv.val,
                                   decodeHmac(self, Member(pkg, FieldNames[3]))))

PayloadFromFields(self, pkg, present) ==
    IF ~present.ok THEN present
    ELSE Next2(present, PayloadFromIV(self, pkg, decodeIV(self, Member(pkg, FieldNames[1]))))

PayloadFromJson(self, deserializedPkg) ==
    IF ~deserializedPkg.ok THEN deserializedPkg
    ELSE Next2(deserializedPkg,
               PayloadFromFields(self, deserializedPkg.val, CheckFields(deserializedPkg.val)))

PayloadFromBytes(self, payload) ==
    IF ~payload.ok THEN payload
    ELSE Next2(payload, PayloadFromJson(self, PayloadJson(payload.val)))

decodeAEADPayload(self, encodedPayload) ==
    PayloadFromBytes(self, PayloadBytes(encodedPayload))

\* What decrypt gives its caller: the plaintext, or UnableToDecrypt with the
\* message of the error it caught as the reason.
UnableToDecrypt(e) ==
    IF e.ok
    THEN [ok |-> TRUE, kind |-> "string", reason |-> "", message |-> "",
          value |-> e.val, ran |-> e.ran]
    ELSE [ok |-> FALSE, kind |-> "UnableToDecrypt", reason |-> e.msg,
          message |-> "Unable to decrypt the ciphertext: " \o e.msg,
          value |-> <<>>, ran |-> e.ran]

\* The try block of decrypt, statement by statement as decodeAEADPayload.
DecryptDeciphered(decrypted) ==
    IF ~decrypted.ok THEN decrypted
    ELSE Next2(decrypted, Returns(Utf8Decode(decrypted.val)))

DecryptVerified(self, aead, verified) ==
    IF ~verified.ok THEN verified
    ELSE Next2(verified,
               DecryptDeciphered(
                   After(<<"cipher">>,
                         DecipherUpdateFinal(self.cipher, self.key, aead.iv, aead.cipherText))))

DecryptDecoded(self, aead) ==
    IF ~aead.ok THEN aead
    ELSE Next2(aead,
               DecryptVerified(self, aead.val,
                   After(<<"hmac">>,
                         verifyHmac(self, aead.val.cipherText, aead.val.iv, aead.val.hmac))))

decrypt(self, encrypted) ==
    UnableToDecrypt(DecryptDecoded(self, decodeAEADPayload(self, encrypted)))

(***************************************************************************)
(* The values the calls of the model are made with.                        *)
(***************************************************************************)
Draws == 1..RandomValues

\* "Hello, world!" (13 bytes), "0123456789abcdef" (one whole block), the
\* empty string, and a string that is a single unpaired surrogate.
Hello == <<72, 101, 108, 108, 111, 44, 32, 119, 111, 114, 108, 100, 33>>
Sixteen == <<48, 49, 50, 51, 52, 53, 54, 55, 56, 57, 97, 98, 99, 100, 101, 102>>
LoneSurrogate == <<55296>>
Plaintexts == {<<>>, Hello, Sixteen, LoneSurrogate}

InvalidKeyText == <<105, 110, 118, 97, 108, 105, 100, 32, 107, 101, 121>>
InvalidIvText == <<105, 110, 118, 97, 108, 105, 100, 32, 105, 118>>
InvalidHmacText == <<105, 110, 118, 97, 108, 105, 100, 32, 104, 109, 97, 99>>
InvalidCipherTextText ==
    <<105, 110, 118, 97, 108, 105, 100, 32, 99, 105, 112, 104, 101, 114, 116, 101, 120, 116>>

\* s without its last n characters.
DropLast(str, n) == SubSeq(str, 1, Len(str) - n)

\* The keys a caller gets from generateKey, one for each draw.
GeneratedKeys == {generateKey(c, r) : c \in Cipher, r \in Draws}

\* Keys near a generated key that are not canonical base64: without its
\* last character or its last two, with a space before it, and with "B=="
\* for its last three characters.
KeyMangles(k) ==
    {DropLast(k, 1), DropLast(k, 2), <<32>> \o k, DropLast(k, 3) \o <<66, 61, 61>>}

\* Keys a caller may give that are not what generateKey returns: the two of
\* the tests ("invalid key", and the base64 of those 11 bytes), and the
\* keys near the generated ones.
OtherKeys ==
    {InvalidKeyText, ToBase64(Utf8Encode(InvalidKeyText))}
        \cup UNION {KeyMangles(k) : k \in GeneratedKeys}

OptionsPool == [key : GeneratedKeys \cup OtherKeys, cipher : Cipher \cup {Undefined}]

\* The instances of the model: what the constructor makes of a cipher and
\* a key generated for it.
Instances ==
    {[cipher |-> c, key |-> randomBytes(ciphers[c].keyLength, r)] : c \in Cipher, r \in Draws}

\* encrypt, tabulated over the instances and the values of the model.
Encrypted ==
    [self \in Instances, p \in Plaintexts, r \in Draws |-> encrypt(self, p, r)] @@ <<>>

(***************************************************************************)
(* What a caller can do to a payload before it hands it to decrypt, as the *)
(* tests do: decode and parse it, change it, and encode it again.          *)
(***************************************************************************)
FieldName(f) ==
    IF f = "iv" THEN <<105, 118>>
    ELSE IF f = "hmac" THEN <<104, 109, 97, 99>>
    ELSE <<99, 105, 112, 104, 101, 114, 84, 101, 120, 116>>

\* payload[f] = value
WithField(obj, f, value) ==
    IF HasMember(obj, FieldName(f))
    THEN JObject(obj.k, [i \in 1..Len(obj.a) |->
                            IF obj.k[i] = FieldName(f) THEN value ELSE obj.a[i]] \o <<>>)
    ELSE JObject(Append(obj.k, FieldName(f)), Append(obj.a, value))

\* delete payload[f]
WithoutField(obj, f) ==
    LET keep == SelectSeq([i \in 1..Len(obj.k) |-> i], LAMBDA i : obj.k[i] # FieldName(f))
    IN  JObject([j \in 1..Len(keep) |-> obj.k[keep[j]]] \o <<>>,
                [j \in 1..Len(keep) |-> obj.a[keep[j]]] \o <<>>)

\* How much a changed byte is changed by.
FlipDelta == 1

\* The base64 text of the bytes of encoded, with the first or the last byte
\* changed.
FlipByte(encoded, at) ==
    LET bytes == FromBase64(encoded)
        i == IF at = "first" THEN 1 ELSE Len(bytes)
    IN  ToBase64([bytes EXCEPT ![i] = (@ + FlipDelta) % 256])

Fields == {"iv", "hmac", "cipherText"}
Flips == [kind : {"flip"}, field : Fields, at : {"first", "last"}]
Mangles ==
    [kind : {"mangle"}, field : {""},
     at : {"iv: not base64", "iv: 10 bytes", "hmac: not base64", "hmac: 1 byte",
           "cipherText: not base64", "cipherText: 18 bytes",
           "no iv", "no hmac", "no cipherText", "iv: number", "hmac: array",
           "hmac: 33 bytes", "cipherText: null", "iv: number, hmac: not base64",
           "all: not base64", "all: wrong length", "no hmac, iv: not base64"}]
NoEdit == [kind |-> "none", field |-> "", at |-> ""]

Mangled(obj, how) ==
    LET badIv == JString(InvalidIvText)
        shortIv == JString(ToBase64(Utf8Encode(InvalidIvText)))
        badHmac == JString(InvalidHmacText)
        shortHmac == JString(ToBase64(<<0>>))
        badCipherText == JString(InvalidCipherTextText)
        oddCipherText == JString(ToBase64(Utf8Encode(InvalidCipherTextText)))
        longHmac == JString(ToBase64(Append(FromBase64(Member(obj, FieldName("hmac")).s), 0)))
    IN  IF how = "iv: not base64" THEN WithField(obj, "iv", badIv)
        ELSE IF how = "iv: 10 bytes" THEN WithField(obj, "iv", shortIv)
        ELSE IF how = "hmac: not base64" THEN WithField(obj, "hmac", badHmac)
        ELSE IF how = "hmac: 1 byte" THEN WithField(obj, "hmac", shortHmac)
        ELSE IF how = "cipherText: not base64" THEN WithField(obj, "cipherText", badCipherText)
        ELSE IF how = "cipherText: 18 bytes" THEN WithField(obj, "cipherText", oddCipherText)
        ELSE IF how = "no iv" THEN WithoutField(obj, "iv")
        ELSE IF how = "no hmac" THEN WithoutField(obj, "hmac")
        ELSE IF how = "no cipherText" THEN WithoutField(obj, "cipherText")
        ELSE IF how = "iv: number" THEN WithField(obj, "iv", JNumber(<<53>>))
        ELSE IF how = "hmac: array"
        THEN WithField(obj, "hmac", JArray(<<JNumber(<<49>>), JNumber(<<50>>)>>))
        ELSE IF how = "hmac: 33 bytes" THEN WithField(obj, "hmac", longHmac)
        ELSE IF how = "cipherText: null" THEN WithField(obj, "cipherText", JNull)
        ELSE IF how = "iv: number, hmac: not base64"
        THEN WithField(WithField(obj, "iv", JNumber(<<53>>)), "hmac", badHmac)
        ELSE IF how = "all: not base64"
        THEN WithField(WithField(WithField(obj, "iv", badIv), "hmac", badHmac),
                       "cipherText", badCipherText)
        ELSE IF how = "all: wrong length"
        THEN WithField(WithField(WithField(obj, "iv", shortIv), "hmac", shortHmac),
                       "cipherText", oddCipherText)
        ELSE WithField(WithoutField(obj, "hmac"), "iv", badIv)

\* Buffer.from(JSON.stringify(payload)).toString("base64")
Encode(obj) == ToBase64(Utf8Encode(JSONStringify(obj)))

\* JSON.parse(Buffer.from(encrypted, "base64").toString("utf-8"))
Decode(encrypted) == JSONParse(Utf8Decode(FromBase64(encrypted))).v

\* Whether the edit can be made to the payload: a byte of an empty buffer
\* cannot be changed.
CanEdit(obj, ed) ==
    ed.kind = "flip" => Member(obj, FieldName(ed.field)).s # <<>>

\* The payload with the edit made.
EditObject(obj, ed) ==
    IF ed.kind = "flip"
    THEN WithField(obj, ed.field, JString(FlipByte(Member(obj, FieldName(ed.field)).s, ed.at)))
    ELSE Mangled(obj, ed.at)

\* The text of the edited payload, <<>> where the edit cannot be made.
EncodeEdited(obj, ed) == IF CanEdit(obj, ed) THEN Encode(EditObject(obj, ed)) ELSE <<>>

Edit(encrypted, ed) == EncodeEdited(Decode(encrypted), ed)

\* The edits made to a payload of the model: any of its three buffers with
\* a byte changed; and, for a payload of "Hello, world!" as in the tests,
\* the changes of Mangles.
EditsOf(p) == IF p = Hello THEN Flips \cup Mangles ELSE Flips

\* Edit, tabulated over the payloads of the model (<<>> where the edit
\* cannot be made).
Edited ==
    [self \in Instances, p \in Plaintexts, r \in Draws, ed \in Flips \cup Mangles |->
        IF ed \in EditsOf(p) THEN Edit(Encrypted[self, p, r], ed) ELSE <<>>] @@ <<>>

\* Strings that are no payload of encrypt: those of the tests ("invalid
\* payload", the base64 of "not valid json", the payload whose hmac does not
\* match, the object of the fields "iv", "cipherText" and "hmac" less one),
\* JSON texts that are no object, and bytes that are no UTF-8.
TestPayload ==
    JObject(<< <<105, 118>>, <<99, 105, 112, 104, 101, 114, 84, 101, 120, 116>>,
               <<104, 109, 97, 99>> >>,
            <<JString(<<105, 118>>),
              JString(<<99, 105, 112, 104, 101, 114, 84, 101, 120, 116>>),
              JString(<<104, 109, 97, 99>>)>>)

MismatchPayload ==
    <<101, 121, 74, 112, 100, 105, 73, 54, 73, 110, 108, 82, 78, 51, 86, 109, 77, 69,
      103, 53, 86, 70, 100, 106, 100, 70, 99, 53, 100, 69, 74, 105, 84, 48, 70, 75, 82,
      87, 99, 57, 80, 83, 73, 115, 73, 109, 104, 116, 89, 87, 77, 105, 79, 105, 74, 81,
      84, 87, 86, 68, 98, 110, 66, 50, 87, 69, 74, 85, 87, 88, 90, 51, 77, 84, 104, 54,
      99, 68, 73, 121, 77, 109, 120, 110, 84, 122, 74, 67, 84, 106, 65, 121, 78, 50, 120,
      85, 90, 67, 57, 115, 85, 70, 100, 78, 83, 85, 104, 110, 100, 69, 104, 110, 80, 83,
      73, 115, 73, 109, 78, 112, 99, 71, 104, 108, 99, 108, 82, 108, 101, 72, 81, 105,
      79, 105, 74, 120, 84, 87, 89, 48, 81, 50, 81, 50, 98, 49, 90, 120, 77, 109, 90,
      115, 76, 50, 100, 82, 97, 70, 112, 67, 82, 51, 70, 82, 80, 84, 48, 105, 102, 81,
      61, 61>>

\* The JSON values a caller encodes into a payload by hand.
CraftedValues ==
    {[name |-> "test payload", value |-> TestPayload],
     [name |-> "test payload, no iv", value |-> WithoutField(TestPayload, "iv")],
     [name |-> "test payload, no cipherText", value |-> WithoutField(TestPayload, "cipherText")],
     [name |-> "test payload, no hmac", value |-> WithoutField(TestPayload, "hmac")],
     [name |-> "null", value |-> JNull],
     [name |-> "number", value |-> JNumber(<<53>>)],
     [name |-> "string", value |-> JString(<<105, 118>>)],
     [name |-> "array", value |-> JArray(<<>>)],
     [name |-> "empty object", value |-> JObject(<<>>, <<>>)]}

Crafted ==
    {[name |-> "invalid payload",
      text |-> <<105, 110, 118, 97, 108, 105, 100, 32, 112, 97, 121, 108, 111, 97, 100>>],
     [name |-> "not valid json",
      text |-> <<98, 109, 57, 48, 73, 72, 90, 104, 98, 71, 108, 107, 73, 71, 112, 122, 98,
                 50, 52, 61>>],
     [name |-> "hmac mismatch", text |-> MismatchPayload],
     [name |-> "not UTF-8", text |-> <<47, 47, 52, 61>>],
     [name |-> "empty", text |-> <<>>]}
        \cup {[name |-> c.name, text |-> Encode(c.value)] : c \in CraftedValues}

\* Where the string given to decrypt comes from: a payload this instance
\* issued, as it is or edited; a payload of another instance (peer); or
\* one of the other strings.
NoInstance == [cipher |-> "none", key |-> <<>>]

Input(how, peer, p, r, ed, name, text) ==
    [how |-> how, peer |-> peer, plaintext |-> p, draw |-> r, edit |-> ed, name |-> name,
     text |-> text]

\* The strings decrypt is called with on an instance.
Inputs(self) ==
    {Input(IF other = self THEN "issued" ELSE "peer", other, p, r, NoEdit, "",
           Encrypted[other, p, r]) :
        other \in Instances, p \in Plaintexts, r \in Draws}
    \cup
    {in \in {Input("edited", self, p, r, ed, "", Edited[self, p, r, ed]) :
                p \in Plaintexts, r \in Draws, ed \in Flips \cup Mangles} : in.text # <<>>}
    \cup
    {Input("text", NoInstance, <<>>, 0, NoEdit, c.name, c.text) : c \in Crafted}

\* decrypt, tabulated over the instances and the strings of the model.
Decrypted ==
    [self \in Instances |-> [in \in Inputs(self) |-> decrypt(self, in.text)] @@ <<>>] @@ <<>>

(***************************************************************************)
(* The key generator of the command line, in its two files: keygen, which  *)
(* draws the key itself and exits on an unsupported cipher, and            *)
(* keygenViaService, which calls EncryptionService.generateKey and does    *)
(* not exit.  A run gives the lines written to standard output, the lines  *)
(* written to standard error, and the exit status.                         *)
(***************************************************************************)
\* Object.keys(ciphers), in the order the table is written.
SupportedCiphers == <<"aes-128-cbc", "aes-256-cbc", "aes-128-gcm", "aes-256-gcm">>

\* Names every object inherits from Object.prototype: ciphers[name] is a
\* function, or the prototype itself, for these.
ObjectPrototypeNames ==
    {"constructor", "toString", "toLocaleString", "valueOf", "hasOwnProperty",
     "isPrototypeOf", "propertyIsEnumerable", "__proto__"}

\* ciphers[name]: the entry of the table, an inherited member (which has no
\* keyLength), or undefined.
Lookup(name) ==
    IF name \in Cipher THEN [found |-> "entry", keyLength |-> ciphers[name].keyLength]
    ELSE IF name \in ObjectPrototypeNames THEN [found |-> "inherited", keyLength |-> 0]
    ELSE [found |-> "undefined", keyLength |-> 0]

\* The command line: --cipher/-c with a value, or without the flag.
NoFlag == [flag |-> FALSE, value |-> ""]
Flag(v) == [flag |-> TRUE, value |-> v]

\* parseArgs(...).values.cipher, with its default.
parseArgs(args) == IF args.flag THEN args.value ELSE "aes-256-cbc"

RECURSIVE Join(_, _)
Join(names, sep) ==
    IF Len(names) = 0 THEN ""
    ELSE IF Len(names) = 1 THEN names[1]
    ELSE names[1] \o sep \o Join(Tail(names), sep)

NotSupported(cipher) ==
    "The provided cipher \"" \o cipher \o "\" is not supported. Supported ciphers are: "
        \o Join(SupportedCiphers, ", ")

\* The errors no one catches: Node writes them to standard error and ends
\* the process with status 1.
SizeNotNumber ==
    "TypeError [ERR_INVALID_ARG_TYPE]: The \"size\" argument must be of type number. Received undefined"
KeyLengthOfUndefined ==
    "TypeError: Cannot read properties of undefined (reading 'keyLength')"

Exit(out, err, status) == [stdout |-> out, stderr |-> err, status |-> status]

\* src/cli/keygen with process.exit(1), r the draw of the random source.
keygen(args, r) ==
    LET cipher == parseArgs(args)
        entry == Lookup(cipher)
    IN  IF entry.found = "undefined" THEN Exit(<<>>, <<NotSupported(cipher)>>, 1)
        ELSE IF entry.found = "inherited" THEN Exit(<<>>, <<SizeNotNumber>>, 1)
        ELSE Exit(<<ToBase64(randomBytes(entry.keyLength, r))>>, <<>>, 0)

\* The generator that calls EncryptionService.generateKey after the
\* warning, without exiting.
keygenViaService(args, r) ==
    LET cipher == parseArgs(args)
        entry == Lookup(cipher)
    IN  IF entry.found = "undefined"
        THEN Exit(<<>>, <<NotSupported(cipher), KeyLengthOfUndefined>>, 1)
        ELSE IF entry.found = "inherited" THEN Exit(<<>>, <<SizeNotNumber>>, 1)
        ELSE Exit(<<generateKey(cipher, r)>>, <<>>, 0)

\* The command lines of the model: no flag, each supported cipher, and
\* values that are no cipher of the table.
CommandLines ==
    {NoFlag} \cup {Flag(c) : c \in Cipher}
        \cup {Flag(v) : v \in {"", "aes-192-cbc", "AES-256-CBC", "constructor", "__proto__"}}

(***************************************************************************)
(* The state: the instance and the options it was constructed with, the    *)
(* calls of encrypt made on it, and the call that has just returned.       *)
(***************************************************************************)
VARIABLES svc, given, issued, last

vars == <<svc, given, issued, last>>

NoOptions == [key |-> <<>>, cipher |-> "none"]
Idle == [op |-> "idle"]

\* How many calls of encrypt the model records.
MaxEnc == 2

Init ==
    /\ svc = NoInstance
    /\ given = NoOptions
    /\ issued = {}
    /\ last = Idle

\* new EncryptionService(o)
Construct ==
    /\ last = Idle
    /\ svc = NoInstance
    /\ \E o \in OptionsPool :
          \E made \in {constructor(o)} :
              /\ svc' = IF made.ok THEN made.self ELSE NoInstance
              /\ given' = IF made.ok THEN o ELSE NoOptions
              /\ last' = [op |-> "new", options |-> o, ok |-> made.ok,
                          kind |-> made.kind, message |-> made.message]
    /\ UNCHANGED issued

\* EncryptionService.generateKey(c)
GenerateKey ==
    /\ last = Idle
    /\ \E c \in Cipher, r \in Draws :
          last' = [op |-> "generateKey", cipher |-> c, draw |-> r,
                   value |-> generateKey(c, r)]
    /\ UNCHANGED <<svc, given, issued>>

\* encrypt with the IV kept on the instance by the first call and read by
\* the calls after it: what the property of independent calls must tell
\* from Encrypt.
EncryptSharingIV ==
    /\ last = Idle
    /\ svc # NoInstance
    /\ Cardinality(issued) < MaxEnc
    /\ \E p \in Plaintexts, r \in Draws :
          \E kept \in {IF issued = {} THEN r ELSE (CHOOSE e \in issued : TRUE).draw} :
              \E e \in {[plaintext |-> p, draw |-> r, value |-> Encrypted[svc, p, kept]]} :
                  /\ issued' = issued \cup {e}
                  /\ last' = [op |-> "encrypt", plaintext |-> p, draw |-> r,
                              value |-> e.value]
    /\ UNCHANGED <<svc, given>>

\* svc.encrypt(p)
Encrypt ==
    /\ last = Idle
    /\ svc # NoInstance
    /\ Cardinality(issued) < MaxEnc
    /\ \E p \in Plaintexts, r \in Draws :
          \E e \in {[plaintext |-> p, draw |-> r, value |-> Encrypted[svc, p, r]]} :
              /\ issued' = issued \cup {e}
              /\ last' = [op |-> "encrypt", plaintext |-> p, draw |-> r, value |-> e.value]
    /\ UNCHANGED <<svc, given>>

\* Whether the caller has the string: a payload of this instance, as it is
\* or edited, once encrypt returned it; the other strings from the start
\* (the model gives them to an instance that has not encrypted yet).
CanGive(in) ==
    IF in.how \in {"issued", "edited"}
    THEN \E e \in issued : e.plaintext = in.plaintext /\ e.draw = in.draw
    ELSE issued = {}

\* svc.decrypt(in.text)
Decrypt ==
    /\ last = Idle
    /\ svc # NoInstance
    /\ \E results \in {Decrypted[svc]} :
          \E in \in DOMAIN results :
              /\ CanGive(in)
              /\ last' = [op |-> "decrypt", from |-> in, input |-> in.text,
                          out |-> results[in]]
    /\ UNCHANGED <<svc, given, issued>>

\* A run of the key generator: a program of its own, which shares nothing
\* with an instance; the model runs it before one is constructed.
Keygen ==
    /\ last = Idle
    /\ svc = NoInstance
    /\ \E args \in CommandLines, r \in Draws, program \in {"keygen", "keygenViaService"} :
          \E ran \in {IF program = "keygen" THEN keygen(args, r) ELSE keygenViaService(args, r)} :
              last' = [op |-> "keygen", program |-> program, args |-> args, draw |-> r,
                       stdout |-> ran.stdout, stderr |-> ran.stderr, status |-> ran.status]
    /\ UNCHANGED <<svc, given, issued>>

\* The caller takes the result of the call.
Return ==
    /\ last # Idle
    /\ last' = Idle
    /\ UNCHANGED <<svc, given, issued>>

Next == Construct \/ GenerateKey \/ Keygen \/ Encrypt \/ Decrypt \/ Return

Spec == Init /\ [][Next]_vars

(***************************************************************************)
(* The properties.  The checks of decrypt in the order of the              *)
(* specification, and the reason each gives when it fails.                 *)
(***************************************************************************)
CheckOrder ==
    <<"payload base64", "JSON", "fields", "iv base64", "iv length", "hmac base64",
      "cipherText base64", "cipherText length", "hmac", "cipher">>

SignatureMismatch == "The signature does not match the encrypted payload."
MissingField(f) == "The AEAD payload is missing the " \o f \o " field."

\* The IV of n bytes given to an instance that wants another length.
IvLengthReason(self, n) ==
    "The decoded IV is not the correct length. Expected "
        \o ToString(ciphers[self.cipher].ivLength) \o " bytes, got " \o ToString(n)
        \o " bytes."

\* The reasons of a check, for a call of decrypt(text) on self.  The IV of
\* a payload is no longer than the payload.
ReasonsOf(check, self, text) ==
    IF check = "payload base64"
    THEN {"The encoded AEAD payload is not a valid base64-encoded string."}
    ELSE IF check = "JSON" THEN {"The decoded AEAD payload is not a valid JSON string."}
    ELSE IF check = "fields" THEN {MissingField(f) : f \in Fields}
    ELSE IF check = "iv base64" THEN {"The IV is not a valid base64-encoded string."}
    ELSE IF check = "iv length" THEN {IvLengthReason(self, n) : n \in 0..Len(text)}
    ELSE IF check = "hmac base64" THEN {"The HMAC is not a valid base64-encoded string."}
    ELSE IF check = "cipherText base64"
    THEN {"The encoded ciphertext is not a valid base64-encoded string."}
    ELSE IF check = "cipherText length"
    THEN {"The length of the decoded ciphertext is not a multiple of the cipher's block length."}
    ELSE IF check = "hmac" THEN {SignatureMismatch}
    ELSE {}

\* Whether reason is one of the nine reasons of the checks before the
\* cipher runs.
IsPipelineReason(reason, self, text) ==
    \E i \in 1..(Len(CheckOrder) - 1) : reason \in ReasonsOf(CheckOrder[i], self, text)

\* Whether reason is the reason of a check made before the HMAC comparison.
IsStructuralReason(reason, self, text) ==
    \E i \in 1..(Len(CheckOrder) - 2) : reason \in ReasonsOf(CheckOrder[i], self, text)

KeyBase64Reason == "The key must be a valid base64-encoded string."
KeyLengthReason(c) ==
    "The decoded key must be " \o ToString(ciphers[c].keyLength) \o " bytes long."
InitFailure(reason) == "Unable to initialize the encryption service: " \o reason

\* C1: decrypt of a payload that encrypt of the same instance returned
\* returns the plaintext encrypt was given and raises no error, for each of
\* the four ciphers, every key the constructor accepted and every plaintext.
C1_RoundTrip ==
    (last.op = "decrypt" /\ last.from.how = "issued") =>
        /\ last.out.ok
        /\ last.out.value = last.from.plaintext

\* C2: the checks decrypt runs are a beginning of the fixed order (payload
\* base64, JSON, fields, iv base64, iv length, hmac base64, cipherText
\* base64, cipherText length, HMAC comparison, cipher), all of it when
\* decrypt returns; when decrypt fails, the reason is that of the check it
\* stopped at, the earliest one the input violates, whatever later checks
\* the input violates too.
C2_ChecksInOrder ==
    last.op = "decrypt" =>
        LET ran == last.out.ran
        IN  /\ ran = SubSeq(CheckOrder, 1, Len(ran))
            /\ last.out.ok => ran = CheckOrder
            /\ ~last.out.ok =>
                  \/ ran[Len(ran)] = "cipher"
                  \/ last.out.reason \in ReasonsOf(ran[Len(ran)], svc, last.input)

\* C3: when a payload passes every check before the HMAC comparison and its
\* decoded hmac is not HMAC-SHA256(key, cipherText || iv), of 32 bytes or
\* of any other length, decrypt fails with the reason "The signature does
\* not match the encrypted payload."
C3_HmacMismatchReason ==
    (last.op = "decrypt" /\ Len(last.out.ran) >= Len(CheckOrder) - 1) =>
        LET obj == Decode(last.input)
            iv == FromBase64(Member(obj, FieldName("iv")).s)
            hmac == FromBase64(Member(obj, FieldName("hmac")).s)
            cipherText == FromBase64(Member(obj, FieldName("cipherText")).s)
        IN  hmac # HmacSha256(svc.key, cipherText \o iv) =>
                /\ ~last.out.ok
                /\ last.out.reason = SignatureMismatch

\* C4: decrypt of a payload of encrypt with one byte of its decoded
\* cipherText, iv or hmac changed, encoded again and given to the same
\* instance, fails, with the signature-mismatch reason or the reason of an
\* earlier check; no plaintext is returned.
C4_TamperDetection ==
    (last.op = "decrypt" /\ last.from.how = "edited" /\ last.from.edit.kind = "flip") =>
        /\ ~last.out.ok
        /\ last.out.kind = "UnableToDecrypt"
        /\ last.out.value = <<>>
        /\ \/ last.out.reason = SignatureMismatch
           \/ IsStructuralReason(last.out.reason, svc, last.input)

\* C4's case: a payload with a byte of its IV changed is rejected for its
\* signature by the instance that issued it.
C4_Witness ==
    /\ last.op = "decrypt"
    /\ last.from.how = "edited"
    /\ last.from.edit.kind = "flip"
    /\ last.from.edit.field = "iv"
    /\ svc.cipher = "aes-256-cbc"
    /\ last.out.reason = SignatureMismatch

\* C5: a decrypt that fails raises UnableToDecrypt, and its reason is one
\* of the nine reasons of the checks or the failure of the cipher in the
\* last step, for every input: payloads that are JSON but no object and
\* payloads with a field that is no string included.
C5_OnlyPipelineReasons ==
    (last.op = "decrypt" /\ ~last.out.ok) =>
        /\ last.out.kind = "UnableToDecrypt"
        /\ \/ last.out.ran[Len(last.out.ran)] = "cipher"
           \/ IsPipelineReason(last.out.reason, svc, last.input)

\* C6: decrypt of a payload that is canonical base64 of valid JSON and
\* lacks some of the fields iv, cipherText, hmac fails with "The AEAD
\* payload is missing the <field> field." for the first missing field in
\* the order iv, cipherText, hmac, and checks nothing of the fields that
\* are present.
C6_FirstMissingField ==
    last.op = "decrypt" =>
        LET bytes == FromBase64(last.input)
            parsed == JSONParse(Utf8Decode(bytes))
            lacking == {i \in 1..Len(FieldNames) :
                           parsed.v.t # "object" \/ ~HasMember(parsed.v, FieldNames[i])}
        IN  (ToBase64(bytes) = last.input /\ parsed.ok /\ lacking # {}) =>
                /\ ~last.out.ok
                /\ last.out.reason = MissingField(FieldText(FieldNames[Min(lacking)]))
                /\ last.out.ran = SubSeq(CheckOrder, 1, 3)

\* C7: for each of the four ciphers, a key that is not the base64 text
\* of its decoded bytes fails construction with the base64 reason, of
\* whatever length it decodes to (the base64 check comes first); a canonical
\* key that decodes to another length than the cipher's keyLength fails with
\* the length reason naming that keyLength; every failure is
\* UnableToInitialize.
C7_ConstructionValidation ==
    (last.op = "new" /\ last.options.cipher \in Cipher) =>
        LET key == last.options.key
            decoded == FromBase64(key)
        IN  /\ ToBase64(decoded) # key =>
                  /\ ~last.ok
                  /\ last.message = InitFailure(KeyBase64Reason)
            /\ (ToBase64(decoded) = key
                   /\ Len(decoded) # ciphers[last.options.cipher].keyLength) =>
                  /\ ~last.ok
                  /\ last.message = InitFailure(KeyLengthReason(last.options.cipher))
            /\ ~last.ok => (last.kind = "UnableToInitialize" /\ svc = NoInstance)

\* C7's case: a key that is not canonical base64 and decodes to a wrong
\* length too is refused for its base64.
C7_Witness ==
    /\ last.op = "new"
    /\ last.options.cipher \in Cipher
    /\ ToBase64(FromBase64(last.options.key)) # last.options.key
    /\ Len(FromBase64(last.options.key)) # ciphers[last.options.cipher].keyLength
    /\ last.kind = "UnableToInitialize"
    /\ last.message = InitFailure(KeyBase64Reason)

\* C8: for each of the four ciphers c, generateKey(c) returns canonical
\* base64 of exactly ciphers[c].keyLength bytes (16 or 32); construction
\* with that key and c succeeds, and construction with that key and a
\* cipher of another keyLength fails with the length reason.
C8_GenerateKey ==
    last.op = "generateKey" =>
        LET decoded == FromBase64(last.value)
        IN  /\ ToBase64(decoded) = last.value
            /\ Len(decoded) = ciphers[last.cipher].keyLength
            /\ Len(decoded) \in {16, 32}
            /\ constructor([key |-> last.value, cipher |-> last.cipher]).ok
            /\ \A d \in Cipher :
                  ciphers[d].keyLength # ciphers[last.cipher].keyLength =>
                      LET made == constructor([key |-> last.value, cipher |-> d])
                      IN  /\ ~made.ok
                          /\ made.kind = "UnableToInitialize"
                          /\ made.message = InitFailure(KeyLengthReason(d))

\* C8's case: a key generated for aes-256-gcm, of 32 bytes.
C8_Witness ==
    /\ last.op = "generateKey"
    /\ last.cipher = "aes-256-gcm"
    /\ Len(FromBase64(last.value)) = 32
    /\ constructor([key |-> last.value, cipher |-> "aes-256-gcm"]).ok

\* The options with aes-256-cbc written out.
Explicit(o) == [key |-> o.key, cipher |-> "aes-256-cbc"]

\* C9: construction with the cipher left out gives what construction with
\* the same key and aes-256-cbc gives (the same instance or the same
\* failure) and accepts only keys of 32 bytes; encrypt and decrypt of the
\* instance give what those of the aes-256-cbc instance give, and each
\* decrypts the payloads of the other.
C9_DefaultCipher ==
    /\ (last.op = "new" /\ last.options.cipher = Undefined) =>
          LET made == constructor(Explicit(last.options))
          IN  /\ last.ok = made.ok
              /\ last.kind = made.kind
              /\ last.message = made.message
              /\ last.ok => (svc = made.self /\ Len(FromBase64(last.options.key)) = 32)
    /\ given.cipher = Undefined =>
          LET other == constructor(Explicit(given)).self
          IN  /\ svc.cipher = "aes-256-cbc"
              /\ last.op = "encrypt" =>
                    /\ last.value = Encrypted[other, last.plaintext, last.draw]
                    /\ Decrypted[other][Input("issued", other, last.plaintext, last.draw,
                                              NoEdit, "", last.value)].ok
              /\ last.op = "decrypt" =>
                    /\ last.out = Decrypted[other][last.from]
                    /\ last.from.how = "issued" => last.out.ok

\* C9's case: an instance constructed without a cipher returns the
\* plaintext of a payload as the aes-256-cbc instance of its key encrypts
\* it.
C9_Witness ==
    /\ given.cipher = Undefined
    /\ last.op = "decrypt"
    /\ last.from.how = "issued"
    /\ last.input = encrypt(constructor(Explicit(given)).self, Hello, last.from.draw)
    /\ last.out.ok
    /\ last.out.value = Hello

\* The IV of each payload of the model, decoded.
IssuedIV ==
    [self \in Instances, p \in Plaintexts, r \in Draws |->
        FromBase64(Member(Decode(Encrypted[self, p, r]), FieldName("iv")).s)] @@ <<>>

\* C10: the IV of every payload encrypt returned is the value its call
\* drew from the random source, of ciphers[cipher].ivLength bytes; two
\* calls on the instance with different draws have different IVs, and
\* with the same plaintext return different strings.
C10_IvFreshness ==
    /\ \A e \in issued :
          /\ Len(IssuedIV[svc, e.plaintext, e.draw]) = ciphers[svc.cipher].ivLength
          /\ IssuedIV[svc, e.plaintext, e.draw]
                = randomBytes(ciphers[svc.cipher].ivLength, e.draw)
    /\ \A e1, e2 \in issued :
          e1.draw # e2.draw =>
              /\ IssuedIV[svc, e1.plaintext, e1.draw] # IssuedIV[svc, e2.plaintext, e2.draw]
              /\ e1.plaintext = e2.plaintext => e1.value # e2.value

\* C10's case: two calls of encrypt with one plaintext and two draws.
C10_Witness ==
    \E e1, e2 \in issued :
        /\ e1.plaintext = e2.plaintext
        /\ e1.draw # e2.draw
        /\ e1.value # e2.value

\* C11: a run of the key generator with a supported cipher, or without the
\* flag (aes-256-cbc), prints one key, canonical base64 of that cipher's
\* keyLength bytes, and ends with status 0; with any other value it prints
\* the message that lists the supported ciphers, ends with another status
\* than 0 and prints no key.
C11_Keygen ==
    last.op = "keygen" =>
        LET cipher == IF last.args.flag THEN last.args.value ELSE "aes-256-cbc"
        IN  IF cipher \in Cipher
            THEN /\ last.status = 0
                 /\ Len(last.stdout) = 1
                 /\ ToBase64(FromBase64(last.stdout[1])) = last.stdout[1]
                 /\ Len(FromBase64(last.stdout[1])) = ciphers[cipher].keyLength
            ELSE /\ last.status # 0
                 /\ last.stdout = <<>>
                 /\ \E i \in 1..Len(last.stderr) : last.stderr[i] = NotSupported(cipher)

\* The payloads of the model as decrypt's caller can read them: decoded
\* from base64 and parsed.
IssuedPayload ==
    [self \in Instances, p \in Plaintexts, r \in Draws |->
        JSONParse(Utf8Decode(FromBase64(Encrypted[self, p, r])))] @@ <<>>

\* The payload a string given to decrypt holds, parsed.
PayloadOf(in) ==
    IF in.how \in {"issued", "peer"} THEN IssuedPayload[in.peer, in.plaintext, in.draw]
    ELSE JSONParse(Utf8Decode(FromBase64(in.text)))

\* The bytes of a field of a parsed payload.
FieldBytes(obj, f) == FromBase64(Member(obj, FieldName(f)).s)

\* Whether a parsed payload has the three fields as canonical base64 text.
HasCanonicalFields(parsed) ==
    /\ parsed.ok
    /\ parsed.v.t = "object"
    /\ \A f \in Fields :
          /\ HasMember(parsed.v, FieldName(f))
          /\ Member(parsed.v, FieldName(f)).t = "string"
          /\ ToBase64(FieldBytes(parsed.v, f)) = Member(parsed.v, FieldName(f)).s

\* Whether the hmac of a parsed payload is HMAC-SHA256(key, cipherText || iv)
\* under the key of self.
IsAuthentic(self, obj) ==
    FieldBytes(obj, "hmac")
        = HmacSha256(self.key, FieldBytes(obj, "cipherText") \o FieldBytes(obj, "iv"))

\* Whether a parsed payload has the lengths self wants of iv and cipherText.
HasLengths(self, obj) ==
    /\ Len(FieldBytes(obj, "iv")) = ciphers[self.cipher].ivLength
    /\ Len(FieldBytes(obj, "cipherText")) % ciphers[self.cipher].blockLength = 0

\* C12: in every call of decrypt, the cipher runs only after all nine
\* checks before it ran and passed: the payload is canonical base64 of an
\* object with the three fields in canonical base64, the iv and the
\* cipherText have the lengths of the cipher, and the hmac is
\* HMAC-SHA256(key, cipherText || iv) under the key of the instance.
C12_CipherAfterAuthentication ==
    (last.op = "decrypt" /\ \E i \in 1..Len(last.out.ran) : last.out.ran[i] = "cipher") =>
        /\ last.out.ran = CheckOrder
        /\ ToBase64(FromBase64(last.input)) = last.input
        /\ HasCanonicalFields(PayloadOf(last.from))
        /\ HasLengths(svc, PayloadOf(last.from).v)
        /\ IsAuthentic(svc, PayloadOf(last.from).v)

\* C12's case: the cipher ran on a payload of the instance and returned
\* its plaintext.
C12_Witness ==
    /\ last.op = "decrypt"
    /\ last.out.ran = CheckOrder
    /\ last.from.how = "issued"
    /\ IsAuthentic(svc, PayloadOf(last.from).v)
    /\ last.out.ok
    /\ last.out.value = Hello

\* C13: the string encrypt returns is canonical base64 of a JSON object
\* with the fields iv, hmac and cipherText, each canonical base64; the iv
\* has ciphers[cipher].ivLength bytes, the length of the cipherText is a
\* multiple of ciphers[cipher].blockLength, and the hmac is
\* HMAC-SHA256(key, cipherText || iv).
C13_EncryptedIsValid ==
    last.op = "encrypt" =>
        LET parsed == IssuedPayload[svc, last.plaintext, last.draw]
        IN  /\ ToBase64(FromBase64(last.value)) = last.value
            /\ HasCanonicalFields(parsed)
            /\ HasLengths(svc, parsed.v)
            /\ IsAuthentic(svc, parsed.v)

\* An instance holds a cipher of the table and a key of its keyLength.
HoldsValidKey(self) ==
    /\ self.cipher \in Cipher
    /\ Len(self.key) = ciphers[self.cipher].keyLength

\* C14: a construction gives an instance with a key of exactly
\* ciphers[cipher].keyLength bytes, or raises UnableToInitialize and gives
\* no instance; and no call made afterwards, of encrypt or of decrypt,
\* returning or failing, changes the key or the cipher of the instance.
C14_InstanceInvariant ==
    /\ [](/\ svc # NoInstance => HoldsValidKey(svc)
          /\ last.op = "new" =>
                /\ last.ok <=> svc # NoInstance
                /\ ~last.ok => last.kind = "UnableToInitialize")
    /\ [][svc # NoInstance => svc' = svc]_vars

\* C14's case: the instance holds its key after an encrypt and a decrypt
\* that failed at the HMAC comparison.
C14_Witness ==
    /\ last.op = "decrypt"
    /\ ~last.out.ok
    /\ last.out.reason = SignatureMismatch
    /\ issued # {}
    /\ HoldsValidKey(svc)

C16_ForeignPayloadsRejected ==
    last.op = "decrypt" =>
        /\ last.out.ok => IsAuthentic(svc, PayloadOf(last.from).v)
        /\ (last.from.how = "peer" /\ last.from.peer.cipher = svc.cipher
                /\ last.from.peer.key # svc.key) =>
              /\ ~last.out.ok
              /\ last.out.reason = SignatureMismatch
        /\ (last.from.how = "peer"
                /\ ciphers[last.from.peer.cipher].ivLength # ciphers[svc.cipher].ivLength) =>
              /\ ~last.out.ok
              /\ last.out.reason
                    = IvLengthReason(svc, ciphers[last.from.peer.cipher].ivLength)

====
